---- MODULE Spec2Model ----
(***************************************************************************)
(* Model of Task.py: the Flask NLP analyzer.                               *)
(*                                                                         *)
(* Python strings that the code slices, strips, lowers, splits or          *)
(* concatenates are sequences of one-character strings, so that ner_tag[2:]*)
(* is SubSeq, += is \o and str.lower() is a per-character map.  Strings    *)
(* that are only compared (language codes, POS labels) are TLA+ strings.   *)
(* A dict is a function from its keys; a key the code never set is not in  *)
(* its DOMAIN.  The third-party engines (langdetect, NLTK, spaCy,          *)
(* underthesea) are opaque: what each call returns, or that it raises, is  *)
(* an input of the request, drawn from bounded sets.  Vietnamese text is   *)
(* written without diacritics ("Viet Nam"); the code treats a letter with  *)
(* a diacritic exactly as it treats the plain letter.                      *)
(***************************************************************************)
EXTENDS Integers, Sequences, FiniteSets, TLC

VARIABLES
    VN_NLP_AVAILABLE,   \* module global set by the underthesea import
    pc,                 \* "start": a call is about to be made; "done": it returned
    op,                 \* which entry point ran
    text,               \* the text argument / the user_text form field
    env,                \* what the engines answer during this call
    returned,           \* return value of perform_nlp_analysis
    locals,             \* the local dict `results` when perform_nlp_analysis returned
    calls,              \* engine calls made, in order
    response            \* what the Flask handler produced

vars == <<VN_NLP_AVAILABLE, pc, op, text, env, returned, locals, calls, response>>

(***************************************************************************)
(* Bounds of the model.                                                    *)
(***************************************************************************)
MaxTextLen   == 3    \* longest request text enumerated character by character
MaxStream    == 3    \* longest Vietnamese (token, tag) stream enumerated
MaxEnts      == 2    \* longest English entity list enumerated
MaxEngineLen == 52   \* longest patterned engine output (exceeds every truncation limit)

(***************************************************************************)
(* Python string primitives.                                               *)
(***************************************************************************)
Whitespace == {" ", "\t", "\n"}

UpperCase == <<"A","B","C","D","E","F","G","H","I","J","K","L","M",
               "N","O","P","Q","R","S","T","U","V","W","X","Y","Z">>
LowerCase == <<"a","b","c","d","e","f","g","h","i","j","k","l","m",
               "n","o","p","q","r","s","t","u","v","w","x","y","z">>

Range(s) == {s[i] : i \in DOMAIN s}

LowerChar(c) ==
    IF c \in Range(UpperCase)
    THEN LowerCase[CHOOSE i \in DOMAIN UpperCase : UpperCase[i] = c]
    ELSE c

\* str.lower()
Lower(s) == [i \in DOMAIN s |-> LowerChar(s[i])]

\* str.isalpha(): non-empty and every character a letter
IsAlpha(s) ==
    /\ s # <<>>
    /\ \A i \in DOMAIN s : s[i] \in Range(UpperCase) \cup Range(LowerCase)

RECURSIVE LStrip(_)
LStrip(s) == IF s # <<>> /\ Head(s) \in Whitespace THEN LStrip(Tail(s)) ELSE s

RECURSIVE RStrip(_)
RStrip(s) ==
    IF s # <<>> /\ s[Len(s)] \in Whitespace
    THEN RStrip(SubSeq(s, 1, Len(s) - 1))
    ELSE s

\* str.strip()
Strip(s) == RStrip(LStrip(s))

\* str.startswith(p)
StartsWith(s, p) == Len(s) >= Len(p) /\ SubSeq(s, 1, Len(p)) = p

\* s[n:]
DropFirst(s, n) == SubSeq(s, n + 1, Len(s))

\* Take with the slice forgotten
Take_Unsliced(lst, n) == lst

\* lst[:min(n, len(lst))]
Take(lst, n) == SubSeq(lst, 1, IF n < Len(lst) THEN n ELSE Len(lst))

\* str.split(sep) for a one-character separator: always at least one piece,
\* empty pieces are kept
RECURSIVE SplitAcc(_, _, _)
SplitAcc(s, sep, cur) ==
    IF s = <<>> THEN <<cur>>
    ELSE IF Head(s) = sep THEN <<cur>> \o SplitAcc(Tail(s), sep, <<>>)
    ELSE SplitAcc(Tail(s), sep, Append(cur, Head(s)))

Split(s, sep) == SplitAcc(s, sep, <<>>)

\* dict: d[k] = v
Put(d, k, v) == [x \in (DOMAIN d) \cup {k} |-> IF x = k THEN v ELSE d[x]]

\* Python's None
None == [NoneType |-> TRUE]

Min(a, b) == IF a < b THEN a ELSE b

(***************************************************************************)
(* String and label literals of the code.                                  *)
(***************************************************************************)
THE          == <<"t","h","e">>
GOOGLE_LOWER == <<"g","o","o","g","l","e">>
CARDINAL     == <<"C","A","R","D","I","N","A","L">>
TECH_COMPANY == <<"T","E","C","H","_","C","O","M","P","A","N","Y">>
VIET_NAM     == <<"V","i","e","t"," ","N","a","m">>
COUNTRY_VN   == <<"C","O","U","N","T","R","Y","_","V","N">>
B_PREFIX     == <<"B","-">>
I_PREFIX     == <<"I","-">>

FORBIDDEN_POS    == {"PUNCT", "SYM", "X"}
VI_FORBIDDEN_POS == {"P", "CH", "F"}

\* truncation limits
TOKENS_LIMIT == 50
LEMMAS_LIMIT == 20
POS_LIMIT    == 30

\* members of stopwords.words('english') that the modelled tokens can hit
STOP_WORDS == {THE, <<"a">>, <<"i","s">>, <<"o","n">>}

UNKNOWN_DEFAULT_EN == "unknown (defaulting to English)"

(***************************************************************************)
(* perform_nlp_analysis: the English strategy.                             *)
(***************************************************************************)

\* lemmatizer_en.lemmatize(token), noun lemmatisation: a plural loses its s
Lemmatize(token) ==
    IF Len(token) > 2 /\ token[Len(token)] = "s" /\ token[Len(token) - 1] # "s"
    THEN SubSeq(token, 1, Len(token) - 1)
    ELSE token

RECURSIVE Dedup(_)
Dedup(s) ==
    IF s = <<>> THEN <<>>
    ELSE LET r == Dedup(SubSeq(s, 1, Len(s) - 1))
         IN  IF s[Len(s)] \in Range(r) THEN r ELSE Append(r, s[Len(s)])

\* list(set(lemmas)): every distinct lemma once, in the set's iteration
\* order, which the hash seed h of the process decides
ListOfSet(lemmas, h) ==
    LET d == Dedup(lemmas)
        k == IF d = <<>> THEN 0 ELSE h % Len(d)
    IN  SubSeq(d, k + 1, Len(d)) \o SubSeq(d, 1, k)

\* modified_tokens_display
ModifiedTokensDisplay(tokens) == SelectSeq(tokens, LAMBDA t : t # THE)

\* filtered_tokens
FilteredTokens(tokens) ==
    SelectSeq(tokens, LAMBDA t : IsAlpha(t) /\ t \notin STOP_WORDS)

\* lemmas
Lemmas(tokens) ==
    LET f == FilteredTokens(tokens) IN [i \in DOMAIN f |-> Lemmatize(f[i])]

\* EnModifiedEntities with the google comparison made without .lower()
EnModifiedEntities_CaseSensitive(ents) ==
    LET kept == SelectSeq(ents, LAMBDA e : e.label # CARDINAL)
    IN  [i \in DOMAIN kept |->
            IF kept[i].text = GOOGLE_LOWER
            THEN [text |-> kept[i].text, label |-> TECH_COMPANY]
            ELSE [text |-> kept[i].text, label |-> kept[i].label]]

\* the loop over raw_entities
EnModifiedEntities(ents) ==
    LET kept == SelectSeq(ents, LAMBDA e : e.label # CARDINAL)
    IN  [i \in DOMAIN kept |->
            IF Lower(kept[i].text) = GOOGLE_LOWER
            THEN [text |-> kept[i].text, label |-> TECH_COMPANY]
            ELSE [text |-> kept[i].text, label |-> kept[i].label]]

\* raw_pos_tags and the loop over them
EnModifiedPosTags(doc) ==
    LET nonspace == SelectSeq(doc, LAMBDA t : ~t.is_space)
        raw      == [i \in DOMAIN nonspace |->
                        [token |-> nonspace[i].text, pos |-> nonspace[i].pos]]
        kept     == SelectSeq(raw, LAMBDA p : p.pos \notin FORBIDDEN_POS)
    IN  [i \in DOMAIN kept |->
            [token |-> kept[i].token,
             pos   |-> IF kept[i].pos = "PROPN" THEN "NAME" ELSE kept[i].pos]]

\* the except branch of either strategy: error_details is stored in the
\* local dict and None is returned
StrategyError(results, cs, prefix, msg) ==
    [ret     |-> None,
     results |-> Put(results, "error_details", <<prefix, msg>>),
     calls   |-> cs]

EnglishStrategy(results, cs, en) ==
    LET c1 == Append(cs, "nlp_spacy_en")
        c2 == Append(c1, "word_tokenize")
        c3 == Append(c2, "sent_tokenize")
        c4 == Append(c3, "stopwords.words")
        c5 == IF FilteredTokens(en.tokens) = <<>> THEN c4 ELSE Append(c4, "lemmatize")
        r1 == Put(results, "word_count", Len(en.tokens))
        r2 == Put(r1, "sentence_count", en.sentences)
        r3 == Put(r2, "first_50_tokens",
                  Take(ModifiedTokensDisplay(en.tokens),
                       Min(TOKENS_LIMIT, Len(ModifiedTokensDisplay(en.tokens)))))
        r4 == Put(r3, "unique_lemmas",
                  Take(ListOfSet(Lemmas(en.tokens), en.hash),
                       Min(LEMMAS_LIMIT, Len(Lemmas(en.tokens)))))
        r5 == Put(r4, "named_entities", EnModifiedEntities(en.ents))
        r6 == Put(r5, "pos_tags",
                  Take(EnModifiedPosTags(en.doc),
                       Min(POS_LIMIT, Len(EnModifiedPosTags(en.doc)))))
        pre == "English NLP error: "
    IN  CASE en.raiseAt = "nlp_spacy_en"    -> StrategyError(results, c1, pre, en.msg)
          [] en.raiseAt = "word_tokenize"   -> StrategyError(results, c2, pre, en.msg)
          [] en.raiseAt = "sent_tokenize"   -> StrategyError(results, c3, pre, en.msg)
          [] en.raiseAt = "stopwords.words" -> StrategyError(r3, c4, pre, en.msg)
          [] en.raiseAt = "lemmatize" /\ FilteredTokens(en.tokens) # <<>>
                                            -> StrategyError(r3, c5, pre, en.msg)
          [] OTHER -> [ret |-> r6, results |-> r6, calls |-> c5]

(***************************************************************************)
(* perform_nlp_analysis: the Vietnamese strategy.                          *)
(***************************************************************************)

\* sentence_count: pieces of text.split('.') that are not blank
ViSentenceCount(t) ==
    Len(SelectSeq(Split(t, "."), LAMBDA piece : Strip(piece) # <<>>))

\* the loop over pos_tags_raw
ViModifiedPosTags(pos_tags_raw) ==
    LET kept == SelectSeq(pos_tags_raw, LAMBDA p : p[2] \notin VI_FORBIDDEN_POS)
    IN  [i \in DOMAIN kept |-> [token |-> kept[i][1], pos |-> kept[i][2]]]

\* the accumulator before the loop over ner_raw
NerStart ==
    [current_entity_text |-> <<>>, current_entity_label |-> <<>>,
     modified_entities |-> <<>>]

\* what the branches append when current_entity_text is truthy
NerFlush(st) ==
    IF st.current_entity_text # <<>>
    THEN Append(st.modified_entities,
                [text |-> st.current_entity_text, label |-> st.current_entity_label])
    ELSE st.modified_entities

\* NerStep with the flush of the previous entity missing from the B- branch
NerStep_NoFlushOnB(st, item) ==
    LET token   == item[1]
        ner_tag == item[3]
    IN  IF StartsWith(ner_tag, B_PREFIX)
        THEN [current_entity_text  |-> token,
              current_entity_label |-> DropFirst(ner_tag, 2),
              modified_entities    |-> st.modified_entities]
        ELSE IF StartsWith(ner_tag, I_PREFIX)
                /\ DropFirst(ner_tag, 2) = st.current_entity_label
        THEN [current_entity_text  |-> st.current_entity_text \o <<" ">> \o token,
              current_entity_label |-> st.current_entity_label,
              modified_entities    |-> st.modified_entities]
        ELSE [current_entity_text  |-> <<>>,
              current_entity_label |-> <<>>,
              modified_entities    |-> NerFlush(st)]

\* one iteration of `for token, _, ner_tag in ner_raw`
NerStep(st, item) ==
    LET token   == item[1]
        ner_tag == item[3]
    IN  IF StartsWith(ner_tag, B_PREFIX)
        THEN [current_entity_text  |-> token,
              current_entity_label |-> DropFirst(ner_tag, 2),
              modified_entities    |-> NerFlush(st)]
        ELSE IF StartsWith(ner_tag, I_PREFIX)
                /\ DropFirst(ner_tag, 2) = st.current_entity_label
        THEN [current_entity_text  |-> st.current_entity_text \o <<" ">> \o token,
              current_entity_label |-> st.current_entity_label,
              modified_entities    |-> st.modified_entities]
        ELSE [current_entity_text  |-> <<>>,
              current_entity_label |-> <<>>,
              modified_entities    |-> NerFlush(st)]

RECURSIVE NerLoop(_, _)
NerLoop(st, ner_raw) ==
    IF ner_raw = <<>> THEN st ELSE NerLoop(NerStep(st, Head(ner_raw)), Tail(ner_raw))

\* the loop and the flush of the last entity after it
NerAggregate(ner_raw) == NerFlush(NerLoop(NerStart, ner_raw))

\* the comparison that guards the COUNTRY_VN relabelling
IsVietNam(entity_text) == Lower(entity_text) = VIET_NAM

\* `for entity in modified_entities`
ViRelabel(entities) ==
    [i \in DOMAIN entities |->
        IF IsVietNam(entities[i].text)
        THEN [text |-> entities[i].text, label |-> COUNTRY_VN]
        ELSE entities[i]]

ViModifiedEntities(ner_raw) == ViRelabel(NerAggregate(ner_raw))

VietnameseStrategy(results, cs, t, vi) ==
    LET c1 == Append(cs, "vn_word_tokenize")
        c2 == Append(c1, "vn_pos_tag")
        c3 == Append(c2, "vn_ner")
        tokens == Split(vi.segmented, " ")
        r1 == Put(results, "first_50_tokens",
                  Take(tokens, Min(TOKENS_LIMIT, Len(tokens))))
        r2 == Put(r1, "word_count", Len(tokens))
        r3 == Put(r2, "sentence_count", ViSentenceCount(t))
        r4 == Put(r3, "pos_tags",
                  Take(ViModifiedPosTags(vi.pos),
                       Min(POS_LIMIT, Len(ViModifiedPosTags(vi.pos)))))
        r5 == Put(r4, "named_entities", ViModifiedEntities(vi.ner))
        pre == "Vietnamese NLP error: "
    IN  CASE vi.raiseAt = "vn_word_tokenize" -> StrategyError(results, c1, pre, vi.msg)
          [] vi.raiseAt = "vn_pos_tag"       -> StrategyError(r3, c2, pre, vi.msg)
          [] vi.raiseAt = "vn_ner"           -> StrategyError(r4, c3, pre, vi.msg)
          [] OTHER -> [ret |-> r5, results |-> r5, calls |-> c3]

(***************************************************************************)
(* perform_nlp_analysis.                                                   *)
(***************************************************************************)

\* IsBlank with the strip() test missing
IsBlank_NoStrip(t) == t = <<>>

\* `not text or not text.strip()`
IsBlank(t) == t = <<>> \/ Strip(t) = <<>>

\* DetectedLang with the except branch leaving lang unset to 'en'
DetectedLang_NoDefault(detect) == detect.code

\* the local lang and results['lang'] after the detection try/except
DetectedLang(detect) == IF detect.raised THEN "en" ELSE detect.code

ResultsLang(detect) == IF detect.raised THEN UNKNOWN_DEFAULT_EN ELSE detect.code

\* results after the placeholders are initialised
Placeholders(detect) ==
    [lang            |-> ResultsLang(detect),
     word_count      |-> 0,
     sentence_count  |-> 0,
     first_50_tokens |-> <<>>,
     unique_lemmas   |-> <<>>,
     named_entities  |-> <<>>,
     pos_tags        |-> <<>>]

perform_nlp_analysis(t, e, vnAvailable) ==
    IF IsBlank(t)
    THEN [ret |-> [lang |-> "unknown"], results |-> <<>>, calls |-> <<>>]
    ELSE LET results == Placeholders(e.detect)
             cs      == <<"detect">>
             lang    == DetectedLang(e.detect)
         IN  IF lang = "en" THEN EnglishStrategy(results, cs, e.en)
             ELSE IF lang = "vi"
             THEN IF ~vnAvailable
                  THEN [ret     |-> None,
                        results |-> Put(results, "error_details",
                            <<"Vietnamese NLP tools (underthesea) not available.">>),
                        calls   |-> cs]
                  ELSE VietnameseStrategy(results, cs, t, e.vi)
             ELSE [ret     |-> None,
                   results |-> Put(results, "error_details",
                       <<"Language '", lang, "' is not supported for full NLP analysis.">>),
                   calls   |-> cs]

(***************************************************************************)
(* The Flask routes.                                                       *)
(***************************************************************************)
NoResponse == [status |-> "none"]

\* render_template(name, ...): result.html shows the error paragraph when
\* analysis.error_details is truthy and the analysis otherwise
Render(template, user_input, analysis) ==
    [status     |-> "rendered",
     template   |-> template,
     user_input |-> user_input,
     analysis   |-> analysis,
     shows      |-> IF template = "index.html" THEN "form"
                    ELSE IF "error_details" \in DOMAIN analysis
                            /\ analysis["error_details"] # <<>>
                         THEN "error" ELSE "analysis"]

\* an exception leaves the view function
Raised(exc) == [status |-> "raised", exception |-> exc]

\* `'error_details' in analysis_results`: a membership test on None is a TypeError
analyze_response(user_input_text, r) ==
    IF Strip(user_input_text) = <<>>
    THEN Render("result.html", user_input_text,
                [error_details |-> <<"Please enter some text for analysis.">>])
    ELSE IF r.ret = None
         THEN Raised("TypeError")
         ELSE Render("result.html", user_input_text, r.ret)

(***************************************************************************)
(* Inputs: request texts and engine answers.                               *)
(***************************************************************************)
SeqsUpTo(S, n) == UNION {[1..k -> S] : k \in 0..n}

TextChars == {" ", "\n", "a", "."}
Texts     == SeqsUpTo(TextChars, MaxTextLen)

Msgs == {"boom", "out of memory"}

EnEngines == {"nlp_spacy_en", "word_tokenize", "sent_tokenize",
              "stopwords.words", "lemmatize"}
ViEngines == {"vn_word_tokenize", "vn_pos_tag", "vn_ner"}

\* langdetect.detect returns a code or raises
Detects ==
    {[raised |-> FALSE, code |-> c, msg |-> ""] : c \in {"en", "vi", "fr"}}
    \cup {[raised |-> TRUE, code |-> "", msg |-> m] : m \in Msgs}

CATS   == <<"c","a","t","s">>
PARIS  == <<"P","a","r","i","s">>
HA     == <<"H","a">>
NOI    == <<"N","o","i">>
DEP    == <<"d","e","p">>
VIET   == <<"V","i","e","t">>
NAM    == <<"N","a","m">>
ORG    == <<"O","R","G">>
LOC    == <<"L","O","C">>
O_TAG  == <<"O">>
B_LOC  == B_PREFIX \o LOC
I_LOC  == I_PREFIX \o LOC
I_PER  == I_PREFIX \o <<"P","E","R">>

DefaultEn ==
    [raiseAt |-> "none", msg |-> "", hash |-> 0,
     tokens    |-> <<THE, CATS, <<".">>>>,
     sentences |-> 1,
     ents      |-> <<[text |-> PARIS, label |-> <<"G","P","E">>]>>,
     doc       |-> <<[text |-> <<"T","h","e">>, pos |-> "DET", is_space |-> FALSE],
                     [text |-> CATS, pos |-> "NOUN", is_space |-> FALSE],
                     [text |-> <<".">>, pos |-> "PUNCT", is_space |-> FALSE]>>]

DefaultVi ==
    [raiseAt |-> "none", msg |-> "",
     segmented |-> <<"H","a","_","N","o","i"," ","d","e","p">>,
     pos       |-> << <<HA \o <<" ">> \o NOI, "Np">>, <<DEP, "A">> >>,
     ner       |-> << <<HA, "Np", B_LOC>>, <<NOI, "Np", I_LOC>>, <<DEP, "A", O_TAG>> >>]

\* at most one engine call raises during a request
Faults ==
    {[engine |-> "none", msg |-> ""]}
    \cup {[engine |-> g, msg |-> m] : g \in EnEngines \cup ViEngines, m \in Msgs}

WithFault(d, f) ==
    [detect |-> d,
     en |-> IF f.engine \in EnEngines
            THEN [DefaultEn EXCEPT !.raiseAt = f.engine, !.msg = f.msg] ELSE DefaultEn,
     vi |-> IF f.engine \in ViEngines
            THEN [DefaultVi EXCEPT !.raiseAt = f.engine, !.msg = f.msg] ELSE DefaultVi]

\* every text, every detection outcome, every fault
DispatchInputs ==
    {[text |-> t, env |-> WithFault(d, f)] : t \in Texts, d \in Detects, f \in Faults}

\* Vietnamese (token, tag) streams
\* every tag with a real token; the empty token with a B- and an I- tag
NerTokens == {VIET, NAM}
NerTags   == {B_LOC, I_LOC, I_PER, O_TAG, I_PREFIX, B_PREFIX}
NerItems  ==
    {<<tok, "N", tag>> : tok \in NerTokens, tag \in NerTags}
    \cup {<<(<<>>), "N", tag>> : tag \in {B_LOC, I_LOC}}
NerStreams ==
    SeqsUpTo(NerItems, MaxStream)
    \cup {<< <<HA, "Np", B_LOC>>, <<NOI, "Np", I_LOC>>, <<DEP, "A", O_TAG>> >>}

NerInputs ==
    {[text |-> <<"a">>,
      env  |-> [detect |-> [raised |-> FALSE, code |-> "vi", msg |-> ""],
                en |-> DefaultEn,
                vi |-> [DefaultVi EXCEPT !.ner = s]]] : s \in NerStreams}

\* English entity spans
EntTexts == {<<"G","o","o","g","l","e">>, GOOGLE_LOWER, <<"G","O","O","G","L","E">>, PARIS}
EntItems == {[text |-> x, label |-> l] : x \in EntTexts, l \in {ORG, CARDINAL}}
EntLists == SeqsUpTo(EntItems, MaxEnts)

EntInputs ==
    {[text |-> <<"a">>,
      env  |-> [detect |-> d, en |-> [DefaultEn EXCEPT !.ents = l], vi |-> DefaultVi]] :
        l \in EntLists, d \in {x \in Detects : x.raised \/ x.code = "en"}}

\* long engine outputs: n items that repeat with period k
TwoLetters(m) == <<LowerCase[((m \div 26) % 26) + 1], LowerCase[(m % 26) + 1]>>

Word(j) ==
    IF j = 0 THEN THE
    ELSE IF j = 1 THEN <<",">>
    ELSE TwoLetters(j \div 2) \o (IF j % 2 = 0 THEN <<"s">> ELSE <<>>)

EntCycle   == <<GOOGLE_LOWER, <<"G","o","o","g","l","e">>, PARIS>>
PosCycle   == <<"NOUN", "PROPN", "PUNCT", "VERB", "NOUN", "SPACE",
                "ADJ", "X", "DET", "SYM", "ADV", "NOUN">>
ViPosCycle == <<"N", "V", "CH", "Np", "A", "P", "N", "F">>

RECURSIVE JoinWords(_, _)
JoinWords(n, k) ==
    IF n = 0 THEN <<>>
    ELSE IF n = 1 THEN Word(1 % k)
    ELSE JoinWords(n - 1, k) \o <<" ">> \o Word(n % k)

LongEn(n, k, h) ==
    [DefaultEn EXCEPT
        !.hash   = h,
        !.tokens = [i \in 1..n |-> Word(i % k)],
        !.ents   = [i \in 1..n |->
                       [text  |-> IF i % 4 = 0 THEN EntCycle[(i % Len(EntCycle)) + 1]
                                  ELSE Word(i % k),
                        label |-> IF i % 3 = 0 THEN CARDINAL ELSE ORG]],
        !.doc    = [i \in 1..n |->
                       [text     |-> Word(i % k),
                        pos      |-> PosCycle[(i % Len(PosCycle)) + 1],
                        is_space |-> PosCycle[(i % Len(PosCycle)) + 1] = "SPACE"]]]

LongVi(n, k) ==
    [DefaultVi EXCEPT
        !.segmented = JoinWords(n, k),
        !.pos       = [i \in 1..n |-> <<Word(i % k), ViPosCycle[(i % Len(ViPosCycle)) + 1]>>]]

Periods == {3, 60}
Hashes  == {0, 1}

LongInputs ==
    {[text |-> <<"a">>,
      env  |-> [detect |-> d, en |-> LongEn(n, k, h), vi |-> LongVi(n, k)]] :
        d \in Detects, n \in 0..MaxEngineLen, k \in Periods, h \in Hashes}

(***************************************************************************)
(* State machine: one request per behaviour.  Requests share no state but  *)
(* the read-only VN_NLP_AVAILABLE.                                         *)
(***************************************************************************)
Unset == [unset |-> TRUE]

InitOn(inputs) ==
    /\ VN_NLP_AVAILABLE \in BOOLEAN
    /\ pc = "start"
    /\ op = "none"
    /\ \E i \in inputs : text = i.text /\ env = i.env
    /\ returned = Unset
    /\ locals = Unset
    /\ calls = <<>>
    /\ response = NoResponse

Init == InitOn(DispatchInputs)

\* a direct call perform_nlp_analysis(text)
PerformCall ==
    /\ pc = "start"
    /\ LET r == perform_nlp_analysis(text, env, VN_NLP_AVAILABLE)
       IN  /\ returned' = r.ret
           /\ locals' = r.results
           /\ calls' = r.calls
    /\ op' = "perform_nlp_analysis"
    /\ pc' = "done"
    /\ UNCHANGED <<VN_NLP_AVAILABLE, text, env, response>>

\* POST /analyze with user_text = text
Analyze ==
    /\ pc = "start"
    /\ LET r == perform_nlp_analysis(text, env, VN_NLP_AVAILABLE)
       IN  /\ IF Strip(text) = <<>>
              THEN UNCHANGED <<returned, locals, calls>>
              ELSE /\ returned' = r.ret
                   /\ locals' = r.results
                   /\ calls' = r.calls
           /\ response' = analyze_response(text, r)
    /\ op' = "analyze"
    /\ pc' = "done"
    /\ UNCHANGED <<VN_NLP_AVAILABLE, text, env>>

\* GET /
Index ==
    /\ pc = "start"
    /\ response' = Render("index.html", <<>>, <<>>)
    /\ op' = "index"
    /\ pc' = "done"
    /\ UNCHANGED <<VN_NLP_AVAILABLE, text, env, returned, locals, calls>>

Next == PerformCall \/ Analyze \/ Index

Spec == Init /\ [][Next]_vars

\* the same program on Vietnamese (token, tag) streams
InitNer == InitOn(NerInputs)
SpecNer == InitNer /\ [][Next]_vars

\* the same program on English entity lists and on long engine outputs
InitEn == InitOn(EntInputs \cup LongInputs)
SpecEn == InitEn /\ [][Next]_vars

(***************************************************************************)
(* Vocabulary of the properties.                                           *)
(***************************************************************************)
PerformDone == pc = "done" /\ op = "perform_nlp_analysis"
AnalyzeDone == pc = "done" /\ op = "analyze"

AllWhitespace(t) == \A i \in DOMAIN t : t[i] \in Whitespace

\* the dispatch the specification describes
RanEnglish    == ~AllWhitespace(text) /\ (env.detect.raised \/ env.detect.code = "en")
RanVietnamese == /\ ~AllWhitespace(text) /\ ~env.detect.raised
                 /\ env.detect.code = "vi" /\ VN_NLP_AVAILABLE
Unsupported   == /\ ~AllWhitespace(text) /\ ~env.detect.raised
                 /\ env.detect.code \notin {"en", "vi"}
ToolsetMissing == /\ ~AllWhitespace(text) /\ ~env.detect.raised
                  /\ env.detect.code = "vi" /\ ~VN_NLP_AVAILABLE

\* an engine that was called raised
EnglishRaised    == env.en.raiseAt \in Range(calls)
VietnameseRaised == env.vi.raiseAt \in Range(calls)

IsFailureResult(r) == r # None /\ "error_details" \in DOMAIN r

AnalyticKeys ==
    {"word_count", "sentence_count", "first_50_tokens", "unique_lemmas",
     "named_entities", "pos_tags"}

IsSuccessResult(r) ==
    r # None /\ r # Unset /\ "error_details" \notin DOMAIN r /\ AnalyticKeys \subseteq DOMAIN r

(***************************************************************************)
(* C1.  For non-blank input whose detected code is neither 'en' nor 'vi',  *)
(* perform_nlp_analysis returns a failure result whose error_details is    *)
(* present and names the detected code.                                    *)
(***************************************************************************)
C1_UnsupportedNamesCode ==
    (PerformDone /\ Unsupported) =>
        /\ IsFailureResult(returned)
        /\ env.detect.code \in Range(returned["error_details"])

(***************************************************************************)
(* C2.  Every strategy-level failure reaches the caller as a result that   *)
(* carries error_details: "English NLP error: <message>" when an English   *)
(* engine call raises, "Vietnamese NLP error: <message>" when a Vietnamese *)
(* engine call raises, and the 'not available' text, before any Vietnamese *)
(* engine is called, when the toolset is missing.                          *)
(***************************************************************************)
C2_FailuresCarryErrorDetails ==
    PerformDone =>
        /\ (RanEnglish /\ EnglishRaised) =>
              /\ IsFailureResult(returned)
              /\ returned["error_details"] = <<"English NLP error: ", env.en.msg>>
        /\ (RanVietnamese /\ VietnameseRaised) =>
              /\ IsFailureResult(returned)
              /\ returned["error_details"] = <<"Vietnamese NLP error: ", env.vi.msg>>
        /\ ToolsetMissing =>
              /\ Range(calls) \cap ViEngines = {}
              /\ IsFailureResult(returned)
              /\ returned["error_details"]
                    = <<"Vietnamese NLP tools (underthesea) not available.">>

(***************************************************************************)
(* C3.  The entities of a Vietnamese analysis are those of the reference   *)
(* state machine over the (token, tag) stream: B- flushes a non-empty      *)
(* accumulator and starts a new one; I- of the accumulator's type appends  *)
(* the token after one space; any other tag flushes and clears; one more   *)
(* flush at the end.  [(Ha,B-LOC),(Noi,I-LOC),(dep,O)] gives exactly       *)
(* [{text: 'Ha Noi', label: 'LOC'}].                                       *)
(***************************************************************************)
RefIsB(tag) == Len(tag) >= 2 /\ tag[1] = "B" /\ tag[2] = "-"
RefIsI(tag) == Len(tag) >= 2 /\ tag[1] = "I" /\ tag[2] = "-"
RefType(tag) == [i \in 1..(Len(tag) - 2) |-> tag[i + 2]]

\* acc = <<text, type>>; the pair <<out, acc>> after the first n items
RECURSIVE RefAfter(_, _)
RefAfter(stream, n) ==
    IF n = 0 THEN <<(<<>>), <<(<<>>), <<>>>>>>
    ELSE LET prev    == RefAfter(stream, n - 1)
             out     == prev[1]
             acc     == prev[2]
             tok     == stream[n][1]
             tag     == stream[n][3]
             flushed == IF acc[1] = <<>> THEN out
                        ELSE out \o <<[text |-> acc[1], label |-> acc[2]]>>
         IN  CASE RefIsB(tag) -> <<flushed, <<tok, RefType(tag)>>>>
               [] ~RefIsB(tag) /\ RefIsI(tag) /\ RefType(tag) = acc[2]
                              -> <<out, <<acc[1] \o <<" ">> \o tok, acc[2]>>>>
               [] OTHER       -> <<flushed, <<(<<>>), <<>>>>>>

RefEntities(stream) ==
    LET final == RefAfter(stream, Len(stream))
    IN  IF final[2][1] = <<>> THEN final[1]
        ELSE final[1] \o <<[text |-> final[2][1], label |-> final[2][2]]>>

HaNoiStream == << <<HA, "Np", B_LOC>>, <<NOI, "Np", I_LOC>>, <<DEP, "A", O_TAG>> >>
HaNoiEntity == [text |-> <<"H","a"," ","N","o","i">>, label |-> LOC]

C3_AggregatorIsReference ==
    (PerformDone /\ RanVietnamese /\ ~VietnameseRaised) =>
        /\ IsSuccessResult(returned)
        /\ returned["named_entities"] = RefEntities(env.vi.ner)
        /\ env.vi.ner = HaNoiStream => returned["named_entities"] = <<HaNoiEntity>>

C3_Witness ==
    /\ PerformDone /\ RanVietnamese
    /\ env.vi.ner = HaNoiStream
    /\ returned # None
    /\ returned["named_entities"] = <<HaNoiEntity>>

(***************************************************************************)
(* C4.  In a Vietnamese analysis every entity whose text is exactly        *)
(* "Viet Nam" is returned with label COUNTRY_VN, and every other entity    *)
(* keeps the label taken from its BIO tag.                                 *)
(***************************************************************************)
C4_VietNamIsCountryVN ==
    (PerformDone /\ RanVietnamese /\ ~VietnameseRaised) =>
        /\ IsSuccessResult(returned)
        /\ Len(returned["named_entities"]) = Len(RefEntities(env.vi.ner))
        /\ \A i \in DOMAIN returned["named_entities"] :
              LET e == returned["named_entities"][i]
              IN  /\ e.text = RefEntities(env.vi.ner)[i].text
                  /\ e.label = IF e.text = VIET_NAM THEN COUNTRY_VN
                               ELSE RefEntities(env.vi.ner)[i].label

(***************************************************************************)
(* C5.  For every empty or whitespace-only text perform_nlp_analysis       *)
(* returns a result holding only lang = 'unknown' (no error_details, no    *)
(* analytic field) and calls neither the detector nor a strategy.          *)
(***************************************************************************)
C5_BlankInputUnknown ==
    (PerformDone /\ AllWhitespace(text)) =>
        /\ returned # None
        /\ DOMAIN returned = {"lang"}
        /\ returned["lang"] = "unknown"
        /\ calls = <<>>

C5_Witness ==
    /\ PerformDone
    /\ text = <<" ", "\n">>
    /\ returned = [lang |-> "unknown"]
    /\ calls = <<>>

(***************************************************************************)
(* C6.  Every successful result of either strategy has at most 30 pos_tags,*)
(* at most 50 tokens and at most 20 lemmas, and its tokens and pos_tags    *)
(* are the leading part, in document order, of the filtered sequence.      *)
(***************************************************************************)
RECURSIVE RefDisplayTokens(_)
RefDisplayTokens(tokens) ==
    IF tokens = <<>> THEN <<>>
    ELSE IF Head(tokens) = <<"t","h","e">> THEN RefDisplayTokens(Tail(tokens))
    ELSE <<Head(tokens)>> \o RefDisplayTokens(Tail(tokens))

RECURSIVE RefEnPos(_)
RefEnPos(doc) ==
    IF doc = <<>> THEN <<>>
    ELSE IF Head(doc).is_space \/ Head(doc).pos \in {"PUNCT", "SYM", "X"}
    THEN RefEnPos(Tail(doc))
    ELSE <<[token |-> Head(doc).text,
            pos   |-> IF Head(doc).pos = "PROPN" THEN "NAME" ELSE Head(doc).pos]>>
         \o RefEnPos(Tail(doc))

RECURSIVE RefViPos(_)
RefViPos(tagged) ==
    IF tagged = <<>> THEN <<>>
    ELSE IF Head(tagged)[2] \in {"P", "CH", "F"} THEN RefViPos(Tail(tagged))
    ELSE <<[token |-> Head(tagged)[1], pos |-> Head(tagged)[2]]>> \o RefViPos(Tail(tagged))

\* p is the first min(limit, Len(s)) elements of s
LeadingPart(p, s, limit) ==
    /\ Len(p) = (IF Len(s) < limit THEN Len(s) ELSE limit)
    /\ \A i \in DOMAIN p : p[i] = s[i]

C6_Truncation ==
    (PerformDone /\ IsSuccessResult(returned)) =>
        /\ Len(returned["pos_tags"]) <= 30
        /\ Len(returned["first_50_tokens"]) <= 50
        /\ Len(returned["unique_lemmas"]) <= 20
        /\ RanEnglish =>
              /\ LeadingPart(returned["first_50_tokens"], RefDisplayTokens(env.en.tokens), 50)
              /\ LeadingPart(returned["pos_tags"], RefEnPos(env.en.doc), 30)
        /\ RanVietnamese =>
              /\ LeadingPart(returned["first_50_tokens"], Split(env.vi.segmented, " "), 50)
              /\ LeadingPart(returned["pos_tags"], RefViPos(env.vi.pos), 30)

C6_Witness ==
    /\ PerformDone /\ RanEnglish /\ IsSuccessResult(returned)
    /\ Len(RefDisplayTokens(env.en.tokens)) > 50
    /\ Len(RefEnPos(env.en.doc)) > 30
    /\ Cardinality(Range(Lemmas(env.en.tokens))) > 20
    /\ Len(returned["first_50_tokens"]) = 50
    /\ Len(returned["pos_tags"]) = 30
    /\ Len(returned["unique_lemmas"]) = 20

(***************************************************************************)
(* C7.  When language detection raises, the pipeline does not fail on that *)
(* account: it runs the English strategy, and the result that strategy     *)
(* returns has lang = 'unknown (defaulting to English)' together with the  *)
(* English analytic fields.                                                *)
(***************************************************************************)
C7_DetectionFailureDefaultsToEnglish ==
    (PerformDone /\ ~AllWhitespace(text) /\ env.detect.raised) =>
        /\ Len(calls) >= 2 /\ calls[1] = "detect" /\ calls[2] = "nlp_spacy_en"
        /\ Range(calls) \cap ViEngines = {}
        /\ ~EnglishRaised =>
              /\ IsSuccessResult(returned)
              /\ returned["lang"] = "unknown (defaulting to English)"
              /\ returned["word_count"] = Len(env.en.tokens)
              /\ returned["sentence_count"] = env.en.sentences
              /\ returned["first_50_tokens"] = RefDisplayTokens(env.en.tokens)
              /\ returned["pos_tags"] = RefEnPos(env.en.doc)

C7_Witness ==
    /\ PerformDone /\ ~AllWhitespace(text) /\ env.detect.raised
    /\ returned # None
    /\ returned["lang"] = "unknown (defaulting to English)"
    /\ returned["word_count"] = 3
    /\ returned["first_50_tokens"] = <<CATS, <<".">>>>

(***************************************************************************)
(* C8.  The entities of an English analysis are the parser's spans in      *)
(* order, without the CARDINAL spans, with label TECH_COMPANY on every     *)
(* remaining span whose text is 'google' in any letter case; no returned   *)
(* entity is CARDINAL and the list is not truncated.                       *)
(***************************************************************************)
GOOGLE_UPPER == <<"G","O","O","G","L","E">>

IsGoogleAnyCase(x) ==
    /\ Len(x) = 6
    /\ \A i \in 1..6 : x[i] \in {GOOGLE_LOWER[i], GOOGLE_UPPER[i]}

RECURSIVE RefEnEntities(_)
RefEnEntities(ents) ==
    IF ents = <<>> THEN <<>>
    ELSE IF Head(ents).label = CARDINAL THEN RefEnEntities(Tail(ents))
    ELSE <<[text  |-> Head(ents).text,
            label |-> IF IsGoogleAnyCase(Head(ents).text)
                      THEN TECH_COMPANY ELSE Head(ents).label]>>
         \o RefEnEntities(Tail(ents))

C8_EnglishEntities ==
    (PerformDone /\ RanEnglish /\ ~EnglishRaised) =>
        /\ IsSuccessResult(returned)
        /\ returned["named_entities"] = RefEnEntities(env.en.ents)
        /\ \A i \in DOMAIN returned["named_entities"] :
              returned["named_entities"][i].label # CARDINAL
        /\ Len(returned["named_entities"])
              = Cardinality({i \in DOMAIN env.en.ents : env.en.ents[i].label # CARDINAL})

C8_Witness ==
    /\ PerformDone /\ RanEnglish
    /\ env.en.ents = <<[text |-> GOOGLE_UPPER, label |-> ORG],
                       [text |-> PARIS, label |-> CARDINAL]>>
    /\ returned # None
    /\ returned["named_entities"] = <<[text |-> GOOGLE_UPPER, label |-> TECH_COMPANY]>>

(***************************************************************************)
(* C9.  Whatever perform_nlp_analysis produces on non-blank input          *)
(* (success, unsupported language, toolset unavailable, strategy           *)
(* exception), the /analyze handler renders the result page without        *)
(* raising, and on a failure the rendered analysis carries error_details.  *)
(***************************************************************************)
FailureOutcome ==
    \/ Unsupported
    \/ ToolsetMissing
    \/ RanEnglish /\ EnglishRaised
    \/ RanVietnamese /\ VietnameseRaised

C9_AnalyzeAlwaysRenders ==
    (AnalyzeDone /\ ~AllWhitespace(text)) =>
        /\ response.status = "rendered"
        /\ response.template = "result.html"
        /\ FailureOutcome =>
              /\ "error_details" \in DOMAIN response.analysis
              /\ response.shows = "error"

(***************************************************************************)
(* C10.  After any Vietnamese (token, tag) stream every emitted entity has *)
(* a non-empty label and a text that begins with a token tagged            *)
(* B-<that label>; an I- token that arrives while nothing is accumulated   *)
(* neither starts nor joins an entity; and when all tokens are non-empty   *)
(* there are as many entities as B- tagged tokens.                         *)
(***************************************************************************)
C10_EntitiesStartAtB ==
    (PerformDone /\ RanVietnamese /\ ~VietnameseRaised) =>
        LET stream   == env.vi.ner
            entities == returned["named_entities"]
        IN  /\ IsSuccessResult(returned)
            /\ \A j \in DOMAIN entities :
                  /\ entities[j].label # <<>>
                  /\ \E i \in DOMAIN stream :
                        /\ stream[i][3] = <<"B", "-">> \o entities[j].label
                        /\ Len(entities[j].text) >= Len(stream[i][1])
                        /\ SubSeq(entities[j].text, 1, Len(stream[i][1])) = stream[i][1]
            /\ (\A i \in DOMAIN stream : stream[i][1] # <<>>) =>
                  Len(entities) = Cardinality({i \in DOMAIN stream : RefIsB(stream[i][3])})

====
